---- MODULE Spec2Model ----
(***************************************************************************)
(* Consensus set of jdelrue/goldchain (vendored rivine consensus module):  *)
(* the speculative TryTransactionSet, the validation pipeline it drives,   *)
(* the state reader bound to the bolt transaction, and the database guard. *)
(***************************************************************************)
EXTENDS Integers, Sequences, FiniteSets, TLC

(***************************************************************************)
(* Bounds of the model                                                     *)
(***************************************************************************)
\* longest batch a single caller submits (specification Spec)
MaxBatch == 2
\* number of concurrent callers (specification SpecConc)
NumProcs == 2

(***************************************************************************)
(* Chain constants (cs.chainCts)                                           *)
(***************************************************************************)
\* devnet: cfg.MinimumTransactionFee = OneCoin.Mul64(1), in units of one coin
MinimumTransactionFee == 1

\* the two size limits are carried to the validators; their unit is abstract
chainCts ==
  [ BlockSizeLimit |-> 4,
    ArbitraryDataSizeLimit |-> 2,
    MinimumTransactionFee |-> MinimumTransactionFee ]

(***************************************************************************)
(* Errors.  Nil is Go's nil error.  errSuccess is the pointer created by   *)
(* errors.New("success") inside TryTransactionSet: no validator or plugin  *)
(* can return that pointer, so it is a value of its own.                   *)
(***************************************************************************)
Nil == "nil"
errSuccess == "errSuccess"
errNilItem == "errNilItem"
errDBInconsistent == "errDBInconsistent"
errStopped == "errStopped"
ErrTooSmallMinerFee == "ErrTooSmallMinerFee"
ErrCoinInputOutputMismatch == "ErrCoinInputOutputMismatch"
ErrBlockCreatingTx == "ErrBlockCreatingTx"
ErrPluginVeto == "ErrPluginVeto"
ErrPluginApply == "ErrPluginApply"

(***************************************************************************)
(* Transactions.  An output identifier is fixed by the transaction that    *)
(* creates it, so every transaction of the catalogue names its outputs.    *)
(* A batch is a sequence of transaction identifiers (txn.ID()).            *)
(***************************************************************************)
Transaction(id, v, cin, cout, bin, bout, fee, bc, ext) ==
  [ ID |-> id, Version |-> v, CoinInputs |-> cin, CoinOutputs |-> cout,
    BlockStakeInputs |-> bin, BlockStakeOutputs |-> bout,
    MinerFee |-> fee, isBlockCreating |-> bc, ext |-> ext ]

Output(id, value) == [id |-> id, value |-> value]

Tx(id) ==
  CASE id = "T1" -> \* spends O fully, pays no fee
         Transaction(id, 1, <<"O">>, <<Output("P", 100)>>, <<>>, <<>>, 0, FALSE, "none")
    [] id = "T2" -> \* spends O, pays the minimum fee
         Transaction(id, 1, <<"O">>, <<Output("P", 99)>>, <<>>, <<>>, 1, FALSE, "none")
    [] id = "T3" -> \* spends the output T2 creates
         Transaction(id, 1, <<"P">>, <<Output("Q", 98)>>, <<>>, <<>>, 1, FALSE, "none")
    [] id = "T4" -> \* touches no output: only the plugins act on it
         Transaction(id, 2, <<>>, <<>>, <<>>, <<>>, 1, FALSE, "none")
    [] id = "T5" -> \* respends the block stake: a block-creating transaction
         Transaction(id, 1, <<>>, <<>>, <<"B">>, <<Output("B2", 1)>>, 0, TRUE, "none")
    [] id = "T6" -> \* vetoed by a plugin validator
         Transaction(id, 2, <<>>, <<>>, <<>>, <<>>, 1, FALSE, "veto")
    [] id = "T7" -> \* spends the output T2 creates; a plugin's apply hook fails on it
         Transaction(id, 2, <<"P">>, <<Output("V", 98)>>, <<>>, <<>>, 1, FALSE, "applyfail")
    [] id = "T8" -> \* moves the block stake to a new owner: not block-creating
         Transaction(id, 2, <<>>, <<>>, <<"B">>, <<Output("C", 1)>>, 1, FALSE, "none")
    [] id = "T9" -> \* touches no output; a plugin's apply hook fails on it
         Transaction(id, 2, <<>>, <<>>, <<>>, <<>>, 1, FALSE, "applyfail")

Txns == {"T1", "T2", "T3", "T5", "T6", "T7"}

RECURSIVE SeqsUpTo(_, _)
SeqsUpTo(S, n) ==
  IF n = 0 THEN {<< >>}
  ELSE LET shorter == SeqsUpTo(S, n - 1)
       IN  shorter \cup {Append(s, x) : s \in {q \in shorter : Len(q) = n - 1}, x \in S}

Batches == SeqsUpTo(Txns, MaxBatch)
\* the batches of concurrent callers: two that share no output (T2, T4),
\* one submitted by several callers at once, one of two transactions
ConcBatches == {<<"T2">>, <<"T4">>, <<"T2", "T3">>}

(***************************************************************************)
(* The durable store: bolt buckets as functions from key to value.         *)
(***************************************************************************)
Plugins == {"pluginA", "pluginB"}

Put(m, k, v) == [x \in (DOMAIN m) \cup {k} |-> IF x = k THEN v ELSE m[x]]
Delete(m, k) == [x \in (DOMAIN m) \ {k} |-> m[x]]

Store(coins, stakes, blocks, consistency) ==
  [ CoinOutputs |-> coins,
    BlockStakeOutputs |-> stakes,
    BlockHeight |-> 1,
    BlockPath |-> (0 :> "genesis" @@ 1 :> "b1"),
    BlockMap |-> blocks,
    PluginBuckets |-> [n \in Plugins |-> {}],
    Consistency |-> consistency ]

GenesisRecord == [Height |-> 0, Timestamp |-> 10]
TipRecord == [Height |-> 1, Timestamp |-> 20]
AllBlocks == ("genesis" :> GenesisRecord @@ "b1" :> TipRecord)

\* one unspent coin output O(100), one unspent block stake output B
ExampleStore == Store("O" :> 100, "B" :> 1, AllBlocks, FALSE)
\* the same store, found on disk with the Consistency Flag set
FlaggedStore == Store("O" :> 100, "B" :> 1, AllBlocks, TRUE)
\* the same store with the block record of the tip missing
TornStore == Store("O" :> 100, "B" :> 1, "genesis" :> GenesisRecord, FALSE)

\* the store file the consensus set finds when it is opened
InitStores == {ExampleStore, FlaggedStore, TornStore}

\* the same store after a block at height 2 was reverted: its record is
\* still in the block map, the path ends at height 1
RevertedStore ==
  Store("O" :> 100, "B" :> 1, AllBlocks @@ ("b2" :> [Height |-> 2, Timestamp |-> 30]), FALSE)

(***************************************************************************)
(* State reader (consensusStateGetter): lookups through one transaction.   *)
(***************************************************************************)
Found(v) == [err |-> Nil, val |-> v]
Failed(e) == [err |-> e, val |-> 0]

getPath(st, height) ==
  IF height \in DOMAIN st.BlockPath THEN Found(st.BlockPath[height]) ELSE Failed(errNilItem)

BlockAtID(st, id) ==
  IF id \in DOMAIN st.BlockMap THEN Found(st.BlockMap[id]) ELSE Failed(errNilItem)

\* the block looked for among the records by its height, the path left out
BlockAtHeightByRecord(st, height) ==
  LET ids == {id \in DOMAIN st.BlockMap : st.BlockMap[id].Height = height}
  IN  IF ids = {} THEN Failed(errNilItem) ELSE BlockAtID(st, CHOOSE id \in ids : TRUE)

BlockAtHeight(st, height) ==
  LET p == getPath(st, height)
  IN  IF p.err # Nil THEN Failed(p.err) ELSE BlockAtID(st, p.val)

UnspentCoinOutputGet(st, id) ==
  IF id \in DOMAIN st.CoinOutputs THEN Found(st.CoinOutputs[id]) ELSE Failed(errNilItem)

UnspentBlockStakeOutputGet(st, id) ==
  IF id \in DOMAIN st.BlockStakeOutputs THEN Found(st.BlockStakeOutputs[id])
  ELSE Failed(errNilItem)

blockHeight(st) == st.BlockHeight

blockTimeStamp(st, height) ==
  LET b == BlockAtHeight(st, height)
  IN  IF b.err # Nil THEN Failed(b.err) ELSE Found(b.val.Timestamp)

\* the database guard
inconsistencyDetected(st) == st.Consistency
markInconsistency(st) == [st EXCEPT !.Consistency = TRUE]

(***************************************************************************)
(* Validators.  A validator receives the transaction, the validation       *)
(* context and the state reader, and returns Nil or an error.              *)
(***************************************************************************)
RECURSIVE SumValues(_)
SumValues(outs) ==
  IF outs = << >> THEN 0 ELSE Head(outs).value + SumValues(Tail(outs))

RECURSIVE FirstLookupError(_, _, _)
FirstLookupError(ids, st, coin) ==
  IF ids = << >> THEN Nil
  ELSE LET r == IF coin THEN UnspentCoinOutputGet(st, Head(ids))
                ELSE UnspentBlockStakeOutputGet(st, Head(ids))
       IN  IF r.err # Nil THEN r.err ELSE FirstLookupError(Tail(ids), st, coin)

RECURSIVE SumInputs(_, _, _)
SumInputs(ids, st, coin) ==
  IF ids = << >> THEN 0
  ELSE (IF coin THEN UnspentCoinOutputGet(st, Head(ids)).val
        ELSE UnspentBlockStakeOutputGet(st, Head(ids)).val)
       + SumInputs(Tail(ids), st, coin)

Validate(validator, t, ctx, st) ==
  CASE validator = "CoinOutputsAreBalanced" ->
         IF FirstLookupError(t.CoinInputs, st, TRUE) # Nil
         THEN FirstLookupError(t.CoinInputs, st, TRUE)
         ELSE IF SumInputs(t.CoinInputs, st, TRUE) = SumValues(t.CoinOutputs) + t.MinerFee
              THEN Nil ELSE ErrCoinInputOutputMismatch
    [] validator = "BlockStakeOutputsAreBalanced" ->
         IF FirstLookupError(t.BlockStakeInputs, st, FALSE) # Nil
         THEN FirstLookupError(t.BlockStakeInputs, st, FALSE)
         ELSE IF SumInputs(t.BlockStakeInputs, st, FALSE) = SumValues(t.BlockStakeOutputs)
              THEN Nil ELSE ErrCoinInputOutputMismatch
    [] validator = "MinerFees" ->
         IF ctx.IsBlockCreatingTx \/ t.MinerFee >= ctx.MinimumMinerFee
         THEN Nil ELSE ErrTooSmallMinerFee
    [] validator = "BlockCreation" ->
         IF t.isBlockCreating /\ ~ctx.IsBlockCreatingTx THEN ErrBlockCreatingTx ELSE Nil
    [] validator = "CoinInputsExist" -> FirstLookupError(t.CoinInputs, st, TRUE)
    [] validator = "BlockStakeInputsExist" -> FirstLookupError(t.BlockStakeInputs, st, FALSE)
    [] validator = "pluginA" -> IF t.ext = "veto" THEN ErrPluginVeto ELSE Nil
    [] validator = "pluginB" -> Nil

\* cs.txVersionMappedValidators: only version 1 has validators of its own
txVersionMappedValidators ==
  (1 :> <<"CoinOutputsAreBalanced", "BlockStakeOutputsAreBalanced">>)

\* cs.txValidators
txValidators == <<"BlockCreation", "MinerFees", "CoinInputsExist", "BlockStakeInputsExist">>

\* the validators the plugins contribute
pluginValidators == <<"pluginA", "pluginB">>

RECURSIVE FirstError(_, _, _, _)
FirstError(validators, t, ctx, st) ==
  IF validators = << >> THEN Nil
  ELSE LET err == Validate(Head(validators), t, ctx, st)
       IN  IF err # Nil THEN err ELSE FirstError(Tail(validators), t, ctx, st)

validateTransactionUsingPlugins(t, ctx, st) == FirstError(pluginValidators, t, ctx, st)

\* the context built for a transaction not yet confirmed
ValidationContextUnconfirmed(constants, height, timestamp, isBlockCreatingTx) ==
  [ Confirmed |-> FALSE,
    BlockHeight |-> height,
    BlockTime |-> timestamp,
    IsBlockCreatingTx |-> isBlockCreatingTx,
    BlockSizeLimit |-> constants.BlockSizeLimit,
    ArbitraryDataSizeLimit |-> constants.ArbitraryDataSizeLimit,
    MinimumMinerFee |-> constants.MinimumMinerFee ]

ValidationContext(constants, height, timestamp, isBlockCreatingTx) ==
  [ Confirmed |-> TRUE,
    BlockHeight |-> height,
    BlockTime |-> timestamp,
    IsBlockCreatingTx |-> isBlockCreatingTx,
    BlockSizeLimit |-> constants.BlockSizeLimit,
    ArbitraryDataSizeLimit |-> constants.ArbitraryDataSizeLimit,
    MinimumMinerFee |-> constants.MinimumMinerFee ]

\* the global validators run before those of the transaction's version
validTransactionGlobalFirst(st, t, constants, height, timestamp, isBlockCreatingTx) ==
  LET ctx == ValidationContext(constants, height, timestamp, isBlockCreatingTx)
      versioned == IF t.Version \in DOMAIN txVersionMappedValidators
                   THEN FirstError(txVersionMappedValidators[t.Version], t, ctx, st)
                   ELSE Nil
      global == FirstError(txValidators, t, ctx, st)
  IN  IF global # Nil THEN global
      ELSE IF versioned # Nil THEN versioned
      ELSE validateTransactionUsingPlugins(t, ctx, st)

validTransaction(st, t, constants, height, timestamp, isBlockCreatingTx) ==
  LET ctx == ValidationContext(constants, height, timestamp, isBlockCreatingTx)
      versioned == IF t.Version \in DOMAIN txVersionMappedValidators
                   THEN FirstError(txVersionMappedValidators[t.Version], t, ctx, st)
                   ELSE Nil
      global == FirstError(txValidators, t, ctx, st)
  IN  IF versioned # Nil THEN versioned
      ELSE IF global # Nil THEN global
      ELSE validateTransactionUsingPlugins(t, ctx, st)

\* the validators one loop of validTransaction invokes, each with what it
\* returned: the loop returns at the first error
RECURSIVE Invoked(_, _, _, _)
Invoked(validators, t, ctx, st) ==
  IF validators = << >> THEN << >>
  ELSE LET err == Validate(Head(validators), t, ctx, st)
           call == [validator |-> Head(validators), err |-> err]
       IN  IF err # Nil THEN <<call>>
           ELSE <<call>> \o Invoked(Tail(validators), t, ctx, st)

\* the validators registered for the version of t: none when the version
\* has no entry in the map
versionValidators(t) ==
  IF t.Version \in DOMAIN txVersionMappedValidators
  THEN txVersionMappedValidators[t.Version]
  ELSE << >>

\* every validator invocation of one validTransaction, in order
validTransactionCalls(st, t, constants, height, timestamp, isBlockCreatingTx) ==
  LET ctx == ValidationContext(constants, height, timestamp, isBlockCreatingTx)
      versioned == Invoked(versionValidators(t), t, ctx, st)
      global == Invoked(txValidators, t, ctx, st)
      plugin == Invoked(pluginValidators, t, ctx, st)
      failed(calls) == calls # << >> /\ calls[Len(calls)].err # Nil
  IN  IF failed(versioned) THEN versioned
      ELSE IF failed(global) THEN versioned \o global
      ELSE versioned \o global \o plugin

\* the block creator fee of the standard net (zero) taken for the minimum fee
TryConstantsNoFee ==
  [ BlockSizeLimit |-> chainCts.BlockSizeLimit,
    ArbitraryDataSizeLimit |-> chainCts.ArbitraryDataSizeLimit,
    MinimumMinerFee |-> 0 ]

\* the constants TryTransactionSet hands to validTransaction
TryConstants ==
  [ BlockSizeLimit |-> chainCts.BlockSizeLimit,
    ArbitraryDataSizeLimit |-> chainCts.ArbitraryDataSizeLimit,
    MinimumMinerFee |-> chainCts.MinimumTransactionFee ]

(***************************************************************************)
(* applyTransaction: spend the inputs, create the outputs, record a diff   *)
(* for each in the processed block that holds the diffs.                   *)
(***************************************************************************)
NewDiffHolder == [Height |-> 0, CoinOutputDiffs |-> << >>, BlockStakeOutputDiffs |-> << >>]

Diff(direction, id, value) == [Direction |-> direction, ID |-> id, Value |-> value]

RECURSIVE SpendCoins(_, _, _)
SpendCoins(ids, st, dh) ==
  IF ids = << >> THEN [st |-> st, dh |-> dh]
  ELSE LET id == Head(ids)
           d == Diff("revert", id, UnspentCoinOutputGet(st, id).val)
       IN  SpendCoins(Tail(ids),
                      [st EXCEPT !.CoinOutputs = Delete(@, id)],
                      [dh EXCEPT !.CoinOutputDiffs = Append(@, d)])

RECURSIVE CreateCoins(_, _, _)
CreateCoins(outs, st, dh) ==
  IF outs = << >> THEN [st |-> st, dh |-> dh]
  ELSE LET o == Head(outs)
           d == Diff("apply", o.id, o.value)
       IN  CreateCoins(Tail(outs),
                       [st EXCEPT !.CoinOutputs = Put(@, o.id, o.value)],
                       [dh EXCEPT !.CoinOutputDiffs = Append(@, d)])

RECURSIVE SpendStakes(_, _, _)
SpendStakes(ids, st, dh) ==
  IF ids = << >> THEN [st |-> st, dh |-> dh]
  ELSE LET id == Head(ids)
           d == Diff("revert", id, UnspentBlockStakeOutputGet(st, id).val)
       IN  SpendStakes(Tail(ids),
                       [st EXCEPT !.BlockStakeOutputs = Delete(@, id)],
                       [dh EXCEPT !.BlockStakeOutputDiffs = Append(@, d)])

RECURSIVE CreateStakes(_, _, _)
CreateStakes(outs, st, dh) ==
  IF outs = << >> THEN [st |-> st, dh |-> dh]
  ELSE LET o == Head(outs)
           d == Diff("apply", o.id, o.value)
       IN  CreateStakes(Tail(outs),
                        [st EXCEPT !.BlockStakeOutputs = Put(@, o.id, o.value)],
                        [dh EXCEPT !.BlockStakeOutputDiffs = Append(@, d)])

applyTransaction(st, dh, t) ==
  LET a == SpendCoins(t.CoinInputs, st, dh)
      b == CreateCoins(t.CoinOutputs, a.st, a.dh)
      c == SpendStakes(t.BlockStakeInputs, b.st, b.dh)
  IN  CreateStakes(t.BlockStakeOutputs, c.st, c.dh)

(***************************************************************************)
(* Plugins: each owns one bucket; its apply hook records the transaction   *)
(* in that bucket or fails.                                                *)
(***************************************************************************)
bucketForPlugin(st, name) == st.PluginBuckets[name]

PluginApplyTransaction(name, t, bucket) ==
  IF name = "pluginA" /\ t.ext = "applyfail"
  THEN [err |-> ErrPluginApply, bucket |-> bucket]
  ELSE [err |-> Nil, bucket |-> bucket \cup {t.ID}]

(***************************************************************************)
(* State                                                                   *)
(***************************************************************************)
VARIABLES
  db,      \* the durable store: what a transaction opened now would read
  wtx,     \* bolt's single write transaction: its owner (0: none) and its view
  tg,      \* the shutdown coordinator (cs.tg)
  mu,      \* cs.mu: the number of holders of the read lock
  pc,      \* where each caller stands
  txns,    \* the batch of each caller's current call
  loc,     \* the locals of each caller's TryTransactionSet
  ret,     \* what each caller's last call returned
  snap,    \* the durable store when each caller's current call started
  hist,    \* what each caller's current call has done so far, in order
  probe,   \* the last lookup made through the state reader, and its result
  file,    \* the store file and its backup on disk
  opn      \* where the opening and the initialization of the store stand

vars == <<db, wtx, tg, mu, pc, txns, loc, ret, snap, hist, probe, file, opn>>

Procs == 1 .. NumProcs

EmptyCC == [CoinOutputDiffs |-> << >>, BlockStakeOutputDiffs |-> << >>]

NoTx == [owner |-> 0, st |-> ExampleStore]

NewLocals ==
  [ diffHolder |-> NewDiffHolder, blockTime |-> 0, i |-> 0,
    pending |-> {}, err |-> Nil, phase |-> "add" ]

NoPrev == [set |-> FALSE, cc |-> EmptyCC]

\* one step of a call, as the record of the call keeps it: the step, the
\* position in the batch it was made for, the name it concerned and the
\* error it ended with
Event(ev, i, name, err) == [ev |-> ev, i |-> i, name |-> name, err |-> err]

Record(p, e) == [hist EXCEPT ![p] = Append(@, e)]

\* the positions of the record of caller p that hold a step of kind ev
StepsOf(p, ev) == {k \in 1 .. Len(hist[p]) : hist[p][k].ev = ev}

\* err and cc are the results of the call; the other fields record how the
\* call went: the transaction it stood at and the step it was in when the
\* callback returned, whether another call was in flight when it returned,
\* and for an apply what the try just before it returned for the same batch
NoReturn ==
  [ op |-> "none", err |-> Nil, cc |-> EmptyCC, at |-> 0, phase |-> "add",
    concurrent |-> FALSE, prev |-> NoPrev ]

\* no lookup made yet
NoProbe == [kind |-> "none", id |-> "none", height |-> 0, res |-> Failed(Nil)]

(***************************************************************************)
(* The store file on disk.  A file has the schema version of its metadata, *)
(* the buckets created in it and the value under the Consistency key       *)
(* ("none" while nothing was put there).  origin tells a file this run     *)
(* created from one it found.                                              *)
(***************************************************************************)
\* dbMetadata.Version
dbVersion == "1.1.0"
\* the version convertLegacyDatabase knows how to convert
legacyVersion == "0.5.0"

ErrBadVersion == "ErrBadVersion"
\* any other error of the file system or of bolt
ErrIO == "ErrIO"
errOpening == "error opening consensus database"
errBackingUp == "error while backing up consensus database"

\* the buckets createConsensusDB and createChangeLog create
ConsensusBuckets ==
  {"BlockHeight", "BlockMap", "BlockPath", "Consistency", "CoinOutputs", "BlockStakeOutputs"}
ChangeLogBuckets == {"ChangeLog"}
RequiredBuckets == ConsensusBuckets \cup ChangeLogBuckets

File(version, buckets, flag, origin) ==
  [exists |-> TRUE, version |-> version, buckets |-> buckets, flag |-> flag, origin |-> origin]
NoFile ==
  [exists |-> FALSE, version |-> "none", buckets |-> {}, flag |-> "none", origin |-> "none"]

NoFiles == [main |-> NoFile, bck |-> NoFile]

\* what <filename> may hold when the node starts: nothing, a store of the
\* current schema (sound or flagged), a legacy store, a store of a schema
\* nobody knows; and <filename>.bck: nothing or the backup of an earlier run
InitMainFiles ==
  { NoFile,
    File(dbVersion, RequiredBuckets, "false", "found"),
    File(dbVersion, RequiredBuckets, "true", "found"),
    File(legacyVersion, RequiredBuckets, "false", "found"),
    File("0.0.1", RequiredBuckets, "false", "found"),
    File(dbVersion, {}, "none", "found") }
InitBckFiles == {NoFile, File("0.0.1", {}, "none", "found")}

\* the store is not open: openDB was not called or the process died
Closed ==
  [ pc |-> "closed", err |-> Nil, first |-> "none", conv |-> "none", rename |-> "none",
    staged |-> NoFile, base |-> NoFile, initErr |-> Nil, pre |-> NoFiles ]

Init ==
  /\ db \in InitStores
  /\ wtx = NoTx
  /\ tg = [stopped |-> FALSE, count |-> 0, closed |-> FALSE]
  /\ mu = 0
  /\ pc = [p \in Procs |-> "idle"]
  /\ txns = [p \in Procs |-> << >>]
  /\ loc = [p \in Procs |-> NewLocals]
  /\ ret = [p \in Procs |-> NoReturn]
  /\ snap = [p \in Procs |-> db]
  /\ hist = [p \in Procs |-> << >>]
  /\ probe = NoProbe
  /\ file = NoFiles
  /\ opn = Closed

(***************************************************************************)
(* TryTransactionSet, step by step                                         *)
(***************************************************************************)
\* the call let through without being counted by the coordinator
TryCallUnregistered(p, b) ==
  /\ txns' = [txns EXCEPT ![p] = b]
  /\ snap' = [snap EXCEPT ![p] = db]
  /\ loc' = [loc EXCEPT ![p] = NewLocals]
  /\ hist' = [hist EXCEPT ![p] =
                <<Event("add", 0, "tg", IF tg.stopped THEN errStopped ELSE Nil)>>]
  /\ IF tg.stopped
     THEN /\ ret' = [ret EXCEPT ![p] = [NoReturn EXCEPT !.op = "try", !.err = errStopped]]
          /\ pc' = [pc EXCEPT ![p] = "done"]
     ELSE /\ ret' = [ret EXCEPT ![p] = NoReturn]
          /\ pc' = [pc EXCEPT ![p] = "rlock"]
  /\ UNCHANGED <<db, wtx, tg, mu, probe, file, opn>>

\* a caller submits a batch b; cs.tg.Add() refuses it once the coordinator
\* is stopped
TryCallWith(p, b) ==
  /\ txns' = [txns EXCEPT ![p] = b]
  /\ snap' = [snap EXCEPT ![p] = db]
  /\ loc' = [loc EXCEPT ![p] = NewLocals]
  /\ hist' = [hist EXCEPT ![p] =
                <<Event("add", 0, "tg", IF tg.stopped THEN errStopped ELSE Nil)>>]
  /\ IF tg.stopped
     THEN /\ ret' = [ret EXCEPT ![p] = [NoReturn EXCEPT !.op = "try", !.err = errStopped]]
          /\ pc' = [pc EXCEPT ![p] = "done"]
          /\ tg' = tg
     ELSE /\ ret' = [ret EXCEPT ![p] = NoReturn]
          /\ pc' = [pc EXCEPT ![p] = "rlock"]
          /\ tg' = [tg EXCEPT !.count = @ + 1]
  /\ UNCHANGED <<db, wtx, mu, probe, file, opn>>

TryCall(p, batches) ==
  /\ pc[p] = "idle"
  /\ \E b \in batches : TryCallWith(p, b)

\* cs.mu.RLock(); diffHolder := new(processedBlock)
TryRLock(p) ==
  /\ pc[p] = "rlock"
  /\ mu' = mu + 1
  /\ loc' = [loc EXCEPT ![p].diffHolder = NewDiffHolder, ![p].phase = "update"]
  /\ pc' = [pc EXCEPT ![p] = "update"]
  /\ hist' = Record(p, Event("rlock", 0, "mu", Nil))
  /\ UNCHANGED <<db, wtx, tg, txns, ret, snap, probe, file, opn>>

\* the transaction begun without waiting for the one that is open, as a
\* read transaction is
TryUpdateBeginUnserialized(p) ==
  /\ pc[p] = "update"
  /\ wtx' = [owner |-> p, st |-> db]
  /\ LET height == blockHeight(db)
         blockTime == blockTimeStamp(db, height)
     IN  IF blockTime.err # Nil
         THEN /\ loc' = [loc EXCEPT ![p].diffHolder.Height = height,
                                    ![p].err = blockTime.err, ![p].phase = "tip"]
              /\ pc' = [pc EXCEPT ![p] = "cbret"]
         ELSE /\ loc' = [loc EXCEPT ![p].diffHolder.Height = height,
                                    ![p].blockTime = blockTime.val,
                                    ![p].i = 1, ![p].phase = "validate"]
              /\ pc' = [pc EXCEPT ![p] = "validate"]
  /\ hist' = [hist EXCEPT ![p] =
                @ \o <<Event("update", 0, "db", Nil),
                       Event("tip", 0, "db", blockTimeStamp(db, blockHeight(db)).err)>>]
  /\ UNCHANGED <<db, tg, mu, txns, ret, snap, probe, file, opn>>

\* cs.db.Update begins the write transaction (one at a time) and the
\* callback reads the tip: its height and the timestamp of its block
TryUpdateBegin(p) ==
  /\ pc[p] = "update"
  /\ wtx.owner = 0
  /\ wtx' = [owner |-> p, st |-> db]
  /\ LET height == blockHeight(db)
         blockTime == blockTimeStamp(db, height)
     IN  IF blockTime.err # Nil
         THEN /\ loc' = [loc EXCEPT ![p].diffHolder.Height = height,
                                    ![p].err = blockTime.err, ![p].phase = "tip"]
              /\ pc' = [pc EXCEPT ![p] = "cbret"]
         ELSE /\ loc' = [loc EXCEPT ![p].diffHolder.Height = height,
                                    ![p].blockTime = blockTime.val,
                                    ![p].i = 1, ![p].phase = "validate"]
              /\ pc' = [pc EXCEPT ![p] = "validate"]
  /\ hist' = [hist EXCEPT ![p] =
                @ \o <<Event("update", 0, "db", Nil),
                       Event("tip", 0, "db", blockTimeStamp(db, blockHeight(db)).err)>>]
  /\ UNCHANGED <<db, tg, mu, txns, ret, snap, probe, file, opn>>

\* the loop head: validTransaction on the next transaction of the batch,
\* read through the state reader bound to st
TryValidateWith(p, st, isBlockCreatingTx) ==
  /\ pc[p] = "validate"
  /\ loc[p].i <= Len(txns[p])
  /\ LET err == validTransaction(st, Tx(txns[p][loc[p].i]), TryConstants,
                                 loc[p].diffHolder.Height, loc[p].blockTime,
                                 isBlockCreatingTx)
     IN  IF err # Nil
         THEN /\ loc' = [loc EXCEPT ![p].err = err]
              /\ pc' = [pc EXCEPT ![p] = "cbret"]
         ELSE /\ loc' = [loc EXCEPT ![p].phase = "apply"]
              /\ pc' = [pc EXCEPT ![p] = "apply"]
  /\ hist' = Record(p,
       [ ev |-> "validate", i |-> loc[p].i, name |-> txns[p][loc[p].i],
         err |-> validTransaction(st, Tx(txns[p][loc[p].i]), TryConstants,
                                  loc[p].diffHolder.Height, loc[p].blockTime,
                                  isBlockCreatingTx),
         ctx |-> ValidationContext(TryConstants, loc[p].diffHolder.Height,
                                   loc[p].blockTime, isBlockCreatingTx),
         calls |-> validTransactionCalls(st, Tx(txns[p][loc[p].i]), TryConstants,
                                         loc[p].diffHolder.Height, loc[p].blockTime,
                                         isBlockCreatingTx) ])
  /\ UNCHANGED <<db, wtx, tg, mu, txns, ret, snap, probe, file, opn>>

\* the reader bound to a fresh view of the durable store
TryValidateStale(p) == TryValidateWith(p, db, FALSE)
\* the block-creation flag passed as true
TryValidateBlockCreating(p) == TryValidateWith(p, wtx.st, TRUE)

\* applyTransaction run whatever validTransaction returned
TryValidateUngated(p) ==
  /\ pc[p] = "validate"
  /\ loc[p].i <= Len(txns[p])
  /\ loc' = [loc EXCEPT ![p].phase = "apply"]
  /\ pc' = [pc EXCEPT ![p] = "apply"]
  /\ hist' = Record(p,
       [ ev |-> "validate", i |-> loc[p].i, name |-> txns[p][loc[p].i],
         err |-> validTransaction(wtx.st, Tx(txns[p][loc[p].i]), TryConstants,
                                  loc[p].diffHolder.Height, loc[p].blockTime, FALSE),
         ctx |-> ValidationContext(TryConstants, loc[p].diffHolder.Height,
                                   loc[p].blockTime, FALSE),
         calls |-> validTransactionCalls(wtx.st, Tx(txns[p][loc[p].i]), TryConstants,
                                         loc[p].diffHolder.Height, loc[p].blockTime,
                                         FALSE) ])
  /\ UNCHANGED <<db, wtx, tg, mu, txns, ret, snap, probe, file, opn>>

TryValidate(p) == TryValidateWith(p, wtx.st, FALSE)

\* applyTransaction(tx, diffHolder, txn)
TryApply(p) ==
  /\ pc[p] = "apply"
  /\ LET r == applyTransaction(wtx.st, loc[p].diffHolder, Tx(txns[p][loc[p].i]))
     IN  /\ wtx' = [wtx EXCEPT !.st = r.st]
         /\ loc' = [loc EXCEPT ![p].diffHolder = r.dh, ![p].pending = Plugins,
                               ![p].phase = "plugin"]
  /\ pc' = [pc EXCEPT ![p] = "plugins"]
  /\ hist' = Record(p, Event("apply", loc[p].i, txns[p][loc[p].i], Nil))
  /\ UNCHANGED <<db, tg, mu, txns, ret, snap, probe, file, opn>>

\* the error of the hook dropped: the loop goes on to the next plugin
TryPluginIgnoresError(p, name) ==
  /\ pc[p] = "plugins"
  /\ name \in loc[p].pending
  /\ LET bucket == bucketForPlugin(wtx.st, name)
         r == PluginApplyTransaction(name, Tx(txns[p][loc[p].i]), bucket)
         rest == loc[p].pending \ {name}
     IN  /\ wtx' = [wtx EXCEPT !.st.PluginBuckets[name] = r.bucket]
         /\ IF rest = {}
            THEN /\ loc' = [loc EXCEPT ![p].pending = {}, ![p].i = @ + 1,
                                       ![p].phase = "validate"]
                 /\ pc' = [pc EXCEPT ![p] = "validate"]
            ELSE /\ loc' = [loc EXCEPT ![p].pending = rest]
                 /\ pc' = pc
         /\ hist' = Record(p,
              [ ev |-> "plugin", i |-> loc[p].i, name |-> name, bucket |-> name,
                err |-> r.err ])
  /\ UNCHANGED <<db, tg, mu, txns, ret, snap, probe, file, opn>>

\* one round of `for name, plugin := range cs.plugins`: Go ranges over a
\* map in no fixed order
TryPlugin(p, name) ==
  /\ pc[p] = "plugins"
  /\ name \in loc[p].pending
  /\ LET bucket == bucketForPlugin(wtx.st, name)
         r == PluginApplyTransaction(name, Tx(txns[p][loc[p].i]), bucket)
         rest == loc[p].pending \ {name}
     IN  IF r.err # Nil
         THEN /\ loc' = [loc EXCEPT ![p].err = r.err, ![p].pending = {}]
              /\ pc' = [pc EXCEPT ![p] = "cbret"]
              /\ wtx' = wtx
         ELSE /\ wtx' = [wtx EXCEPT !.st.PluginBuckets[name] = r.bucket]
              /\ IF rest = {}
                 THEN /\ loc' = [loc EXCEPT ![p].pending = {}, ![p].i = @ + 1,
                                            ![p].phase = "validate"]
                      /\ pc' = [pc EXCEPT ![p] = "validate"]
                 ELSE /\ loc' = [loc EXCEPT ![p].pending = rest]
                      /\ pc' = pc
  /\ hist' = Record(p,
       [ ev |-> "plugin", i |-> loc[p].i, name |-> name, bucket |-> name,
         err |-> PluginApplyTransaction(name, Tx(txns[p][loc[p].i]),
                                        bucketForPlugin(wtx.st, name)).err ])
  /\ UNCHANGED <<db, tg, mu, txns, ret, snap, probe, file, opn>>

\* a callee of the callback (a bucket helper of applyTransaction, a plugin
\* hook) finds an invariant of the store broken and calls
\* markInconsistency(tx) with the transaction of the try; ok is what the
\* bucket's Put answers: a failed Put is reported by build.Severe only
TryMarkInconsistency(p, ok) ==
  /\ pc[p] \in {"apply", "plugins"}
  /\ wtx.owner = p
  /\ StepsOf(p, "mark") = {}
  /\ wtx' = IF ok THEN [wtx EXCEPT !.st = markInconsistency(@)] ELSE wtx
  /\ hist' = Record(p, Event("mark", loc[p].i, "Consistency", IF ok THEN Nil ELSE ErrIO))
  /\ UNCHANGED <<db, tg, mu, pc, txns, loc, ret, snap, probe, file, opn>>

\* a validator or a plugin hook of the running callback asks the state
\* reader bound to the try's transaction
ReaderLookup(p, kind, id, height) ==
  /\ pc[p] \in {"validate", "apply", "plugins"}
  /\ wtx.owner = p
  /\ probe' =
       [ kind |-> kind, id |-> id, height |-> height,
         res |-> CASE kind = "BlockAtID" -> BlockAtID(wtx.st, id)
                   [] kind = "BlockAtHeight" -> BlockAtHeight(wtx.st, height)
                   [] kind = "UnspentCoinOutputGet" -> UnspentCoinOutputGet(wtx.st, id)
                   [] kind = "UnspentBlockStakeOutputGet" ->
                        UnspentBlockStakeOutputGet(wtx.st, id) ]
  /\ probe' # probe
  /\ UNCHANGED <<db, wtx, tg, mu, pc, txns, loc, ret, snap, hist, file, opn>>

\* the batch is exhausted: the callback returns errSuccess
TryLoopEndReturning(p, err) ==
  /\ pc[p] = "validate"
  /\ loc[p].i > Len(txns[p])
  /\ loc' = [loc EXCEPT ![p].err = err, ![p].phase = "end"]
  /\ pc' = [pc EXCEPT ![p] = "cbret"]
  /\ UNCHANGED <<db, wtx, tg, mu, txns, ret, snap, hist, probe, file, opn>>

\* the callback returning nil on the happy path
TryLoopEndNil(p) == TryLoopEndReturning(p, Nil)

TryLoopEnd(p) == TryLoopEndReturning(p, errSuccess)

\* cs.db.Update ends: bolt commits when the callback returned nil and rolls
\* back when it returned an error, which Update hands to its caller
UpdateEnd(p, commit) ==
  /\ pc[p] = "cbret"
  /\ wtx.owner = p
  /\ db' = IF commit THEN wtx.st ELSE db
  /\ wtx' = NoTx
  /\ pc' = [pc EXCEPT ![p] = "ret"]
  /\ hist' = Record(p, Event(IF commit THEN "commit" ELSE "rollback", 0, "db", loc[p].err))
  /\ UNCHANGED <<tg, mu, txns, loc, ret, snap, probe, file, opn>>

\* a transaction managed by hand that commits on every path
TryUpdateEndCommits(p) == UpdateEnd(p, TRUE)

TryUpdateEnd(p) == UpdateEnd(p, loc[p].err = Nil)

\* the caller tells errSuccess from the other errors; the deferred
\* cs.mu.RUnlock() and cs.tg.Done() run
TryReturnWith(p, err, cc) ==
  /\ pc[p] = "ret"
  /\ ret' = [ret EXCEPT ![p] =
               [ op |-> "try", err |-> err, cc |-> cc, at |-> loc[p].i,
                 phase |-> loc[p].phase,
                 concurrent |-> \E q \in Procs \ {p} : pc[q] \notin {"idle", "done"},
                 prev |-> NoPrev ]]
  /\ mu' = mu - 1
  /\ tg' = [tg EXCEPT !.count = @ - 1]
  /\ pc' = [pc EXCEPT ![p] = "done"]
  /\ hist' = [hist EXCEPT ![p] =
                @ \o <<Event("runlock", 0, "mu", Nil), Event("done", 0, "tg", Nil)>>]
  /\ UNCHANGED <<db, wtx, txns, loc, snap, probe, file, opn>>

\* the error of Update handed on as it is
TryReturnRaw(p) ==
  TryReturnWith(p, loc[p].err,
                IF loc[p].err # errSuccess THEN EmptyCC
                ELSE [ CoinOutputDiffs |-> loc[p].diffHolder.CoinOutputDiffs,
                       BlockStakeOutputDiffs |-> loc[p].diffHolder.BlockStakeOutputDiffs ])
\* the error wrapped in a message, as openDB wraps its errors
TryReturnWrapped(p) ==
  IF loc[p].err # errSuccess
  THEN TryReturnWith(p, "error trying transaction set", EmptyCC)
  ELSE TryReturnWith(p, Nil,
                     [ CoinOutputDiffs |-> loc[p].diffHolder.CoinOutputDiffs,
                       BlockStakeOutputDiffs |-> loc[p].diffHolder.BlockStakeOutputDiffs ])
\* the block stake diffs copied into both fields
TryReturnSwapped(p) ==
  IF loc[p].err # errSuccess
  THEN TryReturnWith(p, loc[p].err, EmptyCC)
  ELSE TryReturnWith(p, Nil,
                     [ CoinOutputDiffs |-> loc[p].diffHolder.BlockStakeOutputDiffs,
                       BlockStakeOutputDiffs |-> loc[p].diffHolder.BlockStakeOutputDiffs ])

RECURSIVE Reverse(_)
Reverse(q) == IF q = << >> THEN << >> ELSE Append(Reverse(Tail(q)), Head(q))

\* the diffs handed over latest first
TryReturnReversed(p) ==
  IF loc[p].err # errSuccess
  THEN TryReturnWith(p, loc[p].err, EmptyCC)
  ELSE TryReturnWith(p, Nil,
                     [ CoinOutputDiffs |-> Reverse(loc[p].diffHolder.CoinOutputDiffs),
                       BlockStakeOutputDiffs |-> Reverse(loc[p].diffHolder.BlockStakeOutputDiffs) ])

\* the diffs recorded so far handed over together with the error
TryReturnKeepsDiffs(p) ==
  IF loc[p].err # errSuccess
  THEN TryReturnWith(p, loc[p].err,
                     [ CoinOutputDiffs |-> loc[p].diffHolder.CoinOutputDiffs,
                       BlockStakeOutputDiffs |-> loc[p].diffHolder.BlockStakeOutputDiffs ])
  ELSE TryReturnWith(p, Nil,
                     [ CoinOutputDiffs |-> loc[p].diffHolder.CoinOutputDiffs,
                       BlockStakeOutputDiffs |-> loc[p].diffHolder.BlockStakeOutputDiffs ])

\* the unlock and the deregistration written out before the last return
\* only, not deferred: the early return of an error skips them
TryReturnUndeferred(p) ==
  IF loc[p].err # errSuccess
  THEN /\ pc[p] = "ret"
       /\ ret' = [ret EXCEPT ![p] =
                    [ op |-> "try", err |-> loc[p].err, cc |-> EmptyCC, at |-> loc[p].i,
                      phase |-> loc[p].phase,
                      concurrent |-> \E q \in Procs \ {p} : pc[q] \notin {"idle", "done"},
                      prev |-> NoPrev ]]
       /\ pc' = [pc EXCEPT ![p] = "done"]
       /\ UNCHANGED <<db, wtx, tg, mu, txns, loc, snap, hist, probe, file, opn>>
  ELSE TryReturnWith(p, Nil,
                     [ CoinOutputDiffs |-> loc[p].diffHolder.CoinOutputDiffs,
                       BlockStakeOutputDiffs |-> loc[p].diffHolder.BlockStakeOutputDiffs ])

TryReturn(p) ==
  IF loc[p].err # errSuccess
  THEN TryReturnWith(p, loc[p].err, EmptyCC)
  ELSE TryReturnWith(p, Nil,
                     [ CoinOutputDiffs |-> loc[p].diffHolder.CoinOutputDiffs,
                       BlockStakeOutputDiffs |-> loc[p].diffHolder.BlockStakeOutputDiffs ])

(***************************************************************************)
(* Shutdown: cs.tg.Stop() refuses new calls and waits for those in flight  *)
(***************************************************************************)
StopBegin ==
  /\ ~tg.stopped
  /\ tg' = [tg EXCEPT !.stopped = TRUE]
  /\ UNCHANGED <<db, wtx, mu, pc, txns, loc, ret, snap, hist, probe, file, opn>>

StopEnd ==
  /\ tg.stopped
  /\ ~tg.closed
  /\ tg.count = 0
  /\ tg' = [tg EXCEPT !.closed = TRUE]
  /\ UNCHANGED <<db, wtx, mu, pc, txns, loc, ret, snap, hist, probe, file, opn>>

(***************************************************************************)
(* The apply operation: the same validation and application, committed     *)
(* when the whole batch went through.  It holds cs.mu for writing, so no   *)
(* try runs between its first and its last step.  A caller applies a batch *)
(* when idle, or applies the very batch its try has just returned for.     *)
(***************************************************************************)
PluginOrder == <<"pluginA", "pluginB">>

RECURSIVE RunPlugins(_, _, _)
RunPlugins(names, st, t) ==
  IF names = << >> THEN [err |-> Nil, st |-> st]
  ELSE LET r == PluginApplyTransaction(Head(names), t, bucketForPlugin(st, Head(names)))
       IN  IF r.err # Nil THEN [err |-> r.err, st |-> st]
           ELSE RunPlugins(Tail(names),
                           [st EXCEPT !.PluginBuckets[Head(names)] = r.bucket], t)

RECURSIVE RunBatch(_, _, _, _, _, _, _)
RunBatch(st, dh, b, bc, i, height, blockTime) ==
  IF i > Len(b) THEN [err |-> Nil, st |-> st, dh |-> dh, at |-> i, phase |-> "end"]
  ELSE LET err == validTransaction(st, Tx(b[i]), TryConstants, height, blockTime, bc[i])
           a == applyTransaction(st, dh, Tx(b[i]))
           pl == RunPlugins(PluginOrder, a.st, Tx(b[i]))
       IN  IF err # Nil
           THEN [err |-> err, st |-> st, dh |-> dh, at |-> i, phase |-> "validate"]
           ELSE IF pl.err # Nil
           THEN [err |-> pl.err, st |-> a.st, dh |-> a.dh, at |-> i, phase |-> "plugin"]
           ELSE RunBatch(pl.st, a.dh, b, bc, i + 1, height, blockTime)

\* the outcome of a batch run on store st from its first transaction
BatchOutcome(st, b, bc) ==
  LET height == blockHeight(st)
      blockTime == blockTimeStamp(st, height)
  IN  IF blockTime.err # Nil
      THEN [err |-> blockTime.err, st |-> st, dh |-> NewDiffHolder, at |-> 0, phase |-> "tip"]
      ELSE RunBatch(st, [NewDiffHolder EXCEPT !.Height = height], b, bc, 1,
                    height, blockTime.val)

ApplyWith(p, b, bc) ==
  /\ mu = 0
  /\ wtx.owner = 0
  /\ txns' = [txns EXCEPT ![p] = b]
  /\ snap' = [snap EXCEPT ![p] = db]
  /\ loc' = [loc EXCEPT ![p] = NewLocals]
  /\ hist' = [hist EXCEPT ![p] = << >>]
  /\ pc' = [pc EXCEPT ![p] = "done"]
  /\ LET prev == IF pc[p] = "done" /\ ret[p].err = Nil
                 THEN [set |-> TRUE, cc |-> ret[p].cc]
                 ELSE NoPrev
         r == BatchOutcome(db, b, bc)
     IN  IF tg.stopped
         THEN /\ ret' = [ret EXCEPT ![p] =
                           [NoReturn EXCEPT !.op = "apply", !.err = errStopped, !.prev = prev]]
              /\ db' = db
         ELSE /\ ret' = [ret EXCEPT ![p] =
                           [ op |-> "apply", err |-> r.err,
                             cc |-> IF r.err = Nil
                                    THEN [ CoinOutputDiffs |-> r.dh.CoinOutputDiffs,
                                           BlockStakeOutputDiffs |-> r.dh.BlockStakeOutputDiffs ]
                                    ELSE EmptyCC,
                             at |-> r.at, phase |-> r.phase, concurrent |-> FALSE,
                             prev |-> prev ]]
              /\ db' = IF r.err = Nil THEN r.st ELSE db
  /\ UNCHANGED <<wtx, tg, mu, probe, file, opn>>

ApplyTransactionSet(p, batches) ==
  \/ /\ pc[p] = "idle"
     /\ \E b \in batches : \E bc \in [1 .. Len(b) -> BOOLEAN] : ApplyWith(p, b, bc)
  \/ /\ pc[p] = "done"
     /\ ret[p].op = "try"
     /\ \E bc \in [1 .. Len(txns[p]) -> BOOLEAN] : ApplyWith(p, txns[p], bc)

\* the caller has taken the result of its call and is ready for the next
Resume(p) ==
  /\ pc[p] = "done"
  /\ pc' = [pc EXCEPT ![p] = "idle"]
  /\ txns' = [txns EXCEPT ![p] = << >>]
  /\ loc' = [loc EXCEPT ![p] = NewLocals]
  /\ ret' = [ret EXCEPT ![p] = NoReturn]
  /\ snap' = [snap EXCEPT ![p] = db]
  /\ hist' = [hist EXCEPT ![p] = << >>]
  /\ probe' = NoProbe
  /\ UNCHANGED <<db, wtx, tg, mu, file, opn>>

(***************************************************************************)
(* Opening the store: openDB, replaceDatabase, and the initialization of   *)
(* a store that has no buckets yet.  io and ok are what the file system    *)
(* and bolt answer.                                                        *)
(***************************************************************************)
\* persist.OpenDatabase(dbMetadata, filename): creates the file when there
\* is none, refuses a file whose metadata carry another version
OpenDatabase(f, io) ==
  IF ~io THEN [err |-> ErrIO, file |-> f]
  ELSE IF ~f.exists THEN [err |-> Nil, file |-> File(dbVersion, {}, "none", "new")]
  ELSE IF f.version # dbVersion THEN [err |-> ErrBadVersion, file |-> f]
  ELSE [err |-> Nil, file |-> f]

\* convertLegacyDatabase(filename, cs.log): converts a legacy store where
\* it lies, refuses any other version
convertLegacyDatabase(f, io) ==
  IF ~io THEN [err |-> ErrIO, file |-> f]
  ELSE IF f.version # legacyVersion THEN [err |-> ErrBadVersion, file |-> f]
  ELSE [err |-> Nil, file |-> [f EXCEPT !.version = dbVersion]]

dbInitialized(f) == "BlockStakeOutputs" \in f.buckets

Others == <<db, wtx, tg, mu, pc, txns, loc, ret, snap, hist, probe>>

OpenDBCall ==
  /\ opn.pc = "closed"
  /\ opn' = [Closed EXCEPT !.pc = "open", !.pre = file]
  /\ UNCHANGED <<file, Others>>

\* cs.db, err = persist.OpenDatabase(dbMetadata, filename)
OpenDBFirst(io) ==
  /\ opn.pc = "open"
  /\ LET r == OpenDatabase(file.main, io)
     IN  /\ file' = [file EXCEPT !.main = r.file]
         /\ opn' = IF r.err = ErrBadVersion
                   THEN [opn EXCEPT !.pc = "convert", !.first = r.err]
                   ELSE IF r.err # Nil
                   THEN [opn EXCEPT !.pc = "returned", !.first = r.err, !.err = errOpening]
                   ELSE [opn EXCEPT !.pc = "returned", !.first = r.err, !.err = Nil]
  /\ UNCHANGED Others

\* cs.db, err = convertLegacyDatabase(filename, cs.log); replace tells the
\* errors of the conversion after which the store is replaced
OpenDBConvertWith(io, replace) ==
  /\ opn.pc = "convert"
  /\ LET r == convertLegacyDatabase(file.main, io)
     IN  /\ file' = [file EXCEPT !.main = r.file]
         /\ opn' = IF r.err \in replace
                   THEN [opn EXCEPT !.pc = "rename", !.conv = r.err]
                   ELSE IF r.err # Nil
                   THEN [opn EXCEPT !.pc = "returned", !.conv = r.err, !.err = errOpening]
                   ELSE [opn EXCEPT !.pc = "returned", !.conv = r.err, !.err = Nil]
  /\ UNCHANGED Others

\* the store replaced after any error of the conversion
OpenDBConvertReplacesOnAnyError(io) == OpenDBConvertWith(io, {ErrBadVersion, ErrIO})

OpenDBConvert(io) == OpenDBConvertWith(io, {ErrBadVersion})

\* replaceDatabase: os.Rename(filename, filename+".bck")
ReplaceDatabaseRename(ok) ==
  /\ opn.pc = "rename"
  /\ IF ok
     THEN /\ file' = [main |-> NoFile, bck |-> file.main]
          /\ opn' = [opn EXCEPT !.pc = "reopen", !.rename = "ok"]
     ELSE /\ file' = file
          /\ opn' = [opn EXCEPT !.pc = "returned", !.rename = "failed", !.err = errBackingUp]
  /\ UNCHANGED Others

\* replaceDatabase: cs.db, err = persist.OpenDatabase(dbMetadata, filename)
ReplaceDatabaseOpen(io) ==
  /\ opn.pc = "reopen"
  /\ LET r == OpenDatabase(file.main, io)
     IN  /\ file' = [file EXCEPT !.main = r.file]
         /\ opn' = [opn EXCEPT !.pc = "returned",
                               !.err = IF r.err # Nil THEN errOpening ELSE Nil]
  /\ UNCHANGED Others

\* the caller of openDB opens a write transaction on the store and
\* initializes it when it is not initialized
InitBegin ==
  /\ opn.pc = "returned"
  /\ opn.err = Nil
  /\ opn' = [opn EXCEPT !.pc = IF dbInitialized(file.main) THEN "serving" ELSE "createdb",
                        !.staged = file.main, !.base = file.main]
  /\ UNCHANGED <<file, Others>>

\* initDB: err := cs.createConsensusDB(tx)
InitDBCreateConsensusDB(ok) ==
  /\ opn.pc = "createdb"
  /\ opn' = IF ok
            THEN [opn EXCEPT !.pc = "createlog", !.staged.buckets = @ \cup ConsensusBuckets]
            ELSE [opn EXCEPT !.pc = "initret", !.staged.buckets = @ \cup {"BlockHeight"},
                             !.initErr = ErrIO]
  /\ UNCHANGED <<file, Others>>

\* initDB: err = cs.createChangeLog(tx); returns tells whether a failure
\* ends initDB
InitDBCreateChangeLogWith(ok, returns) ==
  /\ opn.pc = "createlog"
  /\ opn' = IF ok
            THEN [opn EXCEPT !.pc = "putflag", !.staged.buckets = @ \cup ChangeLogBuckets]
            ELSE IF returns
            THEN [opn EXCEPT !.pc = "initret", !.initErr = ErrIO]
            ELSE [opn EXCEPT !.pc = "putflag"]
  /\ UNCHANGED <<file, Others>>

\* the error of createChangeLog overwritten by the next assignment to err
InitDBCreateChangeLogUnchecked(ok) == InitDBCreateChangeLogWith(ok, FALSE)

InitDBCreateChangeLog(ok) == InitDBCreateChangeLogWith(ok, TRUE)

\* initDB: err = tx.Bucket(Consistency).Put(Consistency, siabin.Marshal(false))
InitDBPutFlag(ok) ==
  /\ opn.pc = "putflag"
  /\ opn' = IF ok
            THEN [opn EXCEPT !.pc = "initret", !.staged.flag = "false", !.initErr = Nil]
            ELSE [opn EXCEPT !.pc = "initret", !.initErr = ErrIO]
  /\ UNCHANGED <<file, Others>>

\* the transaction of the initialization ends: committed when initDB
\* returned nil, rolled back when it returned an error
InitEnd ==
  /\ opn.pc = "initret"
  /\ file' = IF opn.initErr = Nil THEN [file EXCEPT !.main = opn.staged] ELSE file
  /\ opn' = [opn EXCEPT !.pc = IF opn.initErr = Nil THEN "serving" ELSE "initfailed"]
  /\ UNCHANGED Others

\* the process dies, or is stopped, wherever it stands: what was not
\* committed is lost, the files stay as they are
Crash ==
  /\ opn.pc # "closed"
  /\ opn' = Closed
  /\ UNCHANGED <<file, Others>>

(***************************************************************************)
(* Specifications                                                          *)
(***************************************************************************)
\* one caller: tries and applies in any order, shutdown at any moment
Next ==
  \/ TryCall(1, Batches)
  \/ TryRLock(1)
  \/ TryUpdateBegin(1)
  \/ TryValidate(1)
  \/ TryApply(1)
  \/ \E name \in Plugins : TryPlugin(1, name)
  \/ TryLoopEnd(1)
  \/ TryUpdateEnd(1)
  \/ TryReturn(1)
  \/ ApplyTransactionSet(1, Batches)
  \/ Resume(1)
  \/ StopBegin
  \/ StopEnd

Spec == Init /\ [][Next]_vars

\* several callers of TryTransactionSet at once, shutdown at any moment
NextConc ==
  \/ \E p \in Procs : TryCall(p, ConcBatches)
  \/ \E p \in Procs : TryRLock(p)
  \/ \E p \in Procs : TryUpdateBegin(p)
  \/ \E p \in Procs : TryValidate(p)
  \/ \E p \in Procs : TryApply(p)
  \/ \E p \in Procs : \E name \in Plugins : TryPlugin(p, name)
  \/ \E p \in Procs : TryLoopEnd(p)
  \/ \E p \in Procs : TryUpdateEnd(p)
  \/ \E p \in Procs : TryReturn(p)
  \/ \E p \in Procs : Resume(p)
  \/ StopBegin
  \/ StopEnd

SpecConc == Init /\ [][NextConc]_vars

\* the batches of callers watched for what they see of each other: both
\* spend O, and the second one fails in a plugin hook after T2 and T7 have
\* changed the outputs in the transaction
IsoBatches == {<<"T2">>, <<"T2", "T7">>}

\* several callers of TryTransactionSet at once, on batches that spend the
\* same output
NextIso ==
  \/ \E p \in Procs : TryCall(p, IsoBatches)
  \/ \E p \in Procs : TryRLock(p)
  \/ \E p \in Procs : TryUpdateBegin(p)
  \/ \E p \in Procs : TryValidate(p)
  \/ \E p \in Procs : TryApply(p)
  \/ \E p \in Procs : \E name \in Plugins : TryPlugin(p, name)
  \/ \E p \in Procs : TryLoopEnd(p)
  \/ \E p \in Procs : TryUpdateEnd(p)
  \/ \E p \in Procs : TryReturn(p)
  \/ \E p \in Procs : Resume(p)
  \/ StopBegin
  \/ StopEnd

SpecIso == Init /\ [][NextIso]_vars

\* the batches of callers watched for their return: one accepted, one
\* rejected by a validator, one rejected by a plugin hook
LiveBatches == {<< >>, <<"T6">>, <<"T9">>}

\* a store with a readable tip, and one whose tip has no block record
InitLive ==
  /\ db \in {ExampleStore, TornStore}
  /\ wtx = NoTx
  /\ tg = [stopped |-> FALSE, count |-> 0, closed |-> FALSE]
  /\ mu = 0
  /\ pc = [p \in Procs |-> "idle"]
  /\ txns = [p \in Procs |-> << >>]
  /\ loc = [p \in Procs |-> NewLocals]
  /\ ret = [p \in Procs |-> NoReturn]
  /\ snap = [p \in Procs |-> db]
  /\ hist = [p \in Procs |-> << >>]
  /\ probe = NoProbe
  /\ file = NoFiles
  /\ opn = Closed

NextLive ==
  \/ \E p \in Procs : TryCall(p, LiveBatches)
  \/ \E p \in Procs : TryRLock(p)
  \/ \E p \in Procs : TryUpdateBegin(p)
  \/ \E p \in Procs : TryValidate(p)
  \/ \E p \in Procs : TryApply(p)
  \/ \E p \in Procs : \E name \in Plugins : TryPlugin(p, name)
  \/ \E p \in Procs : TryLoopEnd(p)
  \/ \E p \in Procs : TryUpdateEnd(p)
  \/ \E p \in Procs : TryReturn(p)
  \/ \E p \in Procs : Resume(p)
  \/ StopBegin
  \/ StopEnd

\* the steps of a call that wait for nothing: the caller stands at one of
\* them at a time
CallStep(p) ==
  \/ TryRLock(p)
  \/ TryValidate(p)
  \/ TryApply(p)
  \/ \E name \in Plugins : TryPlugin(p, name)
  \/ TryLoopEnd(p)
  \/ TryUpdateEnd(p)
  \/ TryReturn(p)

\* a call that can take a step takes it: the goroutine of a caller is
\* scheduled, validators and plugin hooks return.  cs.mu.RLock() never
\* waits here, no writer being modelled; cs.db.Update waits for bolt's
\* writer mutex, a sync.Mutex, which hands the lock to a waiter that has
\* waited long (strong fairness).  Nothing makes a caller call, take its
\* result, or request the shutdown.
FairCall(p) ==
  /\ WF_vars(CallStep(p))
  /\ SF_vars(TryUpdateBegin(p))

\* several callers of TryTransactionSet, calling again and again, shutdown
\* at any moment, every call in flight making progress
SpecLive ==
  /\ InitLive
  /\ [][NextLive]_vars
  /\ \A p \in Procs : FairCall(p)
  /\ WF_vars(StopEnd)

\* the batches tried while the guard or the state reader is watched
GuardBatches == {<< >>, <<"T2">>, <<"T2", "T3">>, <<"T2", "T7">>}

\* one caller of TryTransactionSet; while a transaction of the batch is
\* applied, a callee may find the store broken and mark it
NextGuard ==
  \/ TryCall(1, GuardBatches)
  \/ TryRLock(1)
  \/ TryUpdateBegin(1)
  \/ TryValidate(1)
  \/ TryApply(1)
  \/ \E name \in Plugins : TryPlugin(1, name)
  \/ \E ok \in BOOLEAN : TryMarkInconsistency(1, ok)
  \/ TryLoopEnd(1)
  \/ TryUpdateEnd(1)
  \/ TryReturn(1)
  \/ Resume(1)
  \/ StopBegin
  \/ StopEnd

SpecGuard == Init /\ [][NextGuard]_vars

\* the batches tried while the Consensus Change is watched: coin outputs and
\* block stake outputs moved, in either order, and a batch failing at its
\* second transaction in validation (T6, T5, T1) or in a plugin hook (T7)
ChangeBatches ==
  { << >>, <<"T2">>, <<"T8">>, <<"T2", "T8">>, <<"T8", "T2">>, <<"T2", "T3">>,
    <<"T8", "T6">>, <<"T8", "T5">>, <<"T2", "T1">>, <<"T2", "T7">>, <<"T6">> }

\* one caller of TryTransactionSet, shutdown at any moment
NextChange ==
  \/ TryCall(1, ChangeBatches)
  \/ TryRLock(1)
  \/ TryUpdateBegin(1)
  \/ TryValidate(1)
  \/ TryApply(1)
  \/ \E name \in Plugins : TryPlugin(1, name)
  \/ TryLoopEnd(1)
  \/ TryUpdateEnd(1)
  \/ TryReturn(1)
  \/ Resume(1)
  \/ StopBegin
  \/ StopEnd

SpecChange == Init /\ [][NextChange]_vars

\* the keys validators look up: block identifiers, heights, identifiers of
\* coin outputs and of block stake outputs, present, spent, or never there
LookupBlockIDs == {"genesis", "b1", "b2", "b9"}
LookupHeights == {0, 1, 2, 3}
LookupCoinIDs == {"O", "P", "Z"}
LookupStakeIDs == {"B", "Z"}

ReaderBatches == {<<"T2">>, <<"T2", "T3">>}

InitReader ==
  /\ db \in {ExampleStore, TornStore, RevertedStore}
  /\ wtx = NoTx
  /\ tg = [stopped |-> FALSE, count |-> 0, closed |-> FALSE]
  /\ mu = 0
  /\ pc = [p \in Procs |-> "idle"]
  /\ txns = [p \in Procs |-> << >>]
  /\ loc = [p \in Procs |-> NewLocals]
  /\ ret = [p \in Procs |-> NoReturn]
  /\ snap = [p \in Procs |-> db]
  /\ hist = [p \in Procs |-> << >>]
  /\ probe = NoProbe
  /\ file = NoFiles
  /\ opn = Closed

\* one caller of TryTransactionSet, and the lookups made through the state
\* reader while its transaction is open
NextReader ==
  \/ TryCall(1, ReaderBatches)
  \/ TryRLock(1)
  \/ TryUpdateBegin(1)
  \/ TryValidate(1)
  \/ TryApply(1)
  \/ \E name \in Plugins : TryPlugin(1, name)
  \/ \E id \in LookupBlockIDs : ReaderLookup(1, "BlockAtID", id, 0)
  \/ \E height \in LookupHeights : ReaderLookup(1, "BlockAtHeight", "none", height)
  \/ \E id \in LookupCoinIDs : ReaderLookup(1, "UnspentCoinOutputGet", id, 0)
  \/ \E id \in LookupStakeIDs : ReaderLookup(1, "UnspentBlockStakeOutputGet", id, 0)
  \/ TryLoopEnd(1)
  \/ TryUpdateEnd(1)
  \/ TryReturn(1)
  \/ Resume(1)

SpecReader == InitReader /\ [][NextReader]_vars

\* the store opened, initialized, and opened again after a crash, from
\* whatever lies on disk
InitOpen ==
  /\ db = ExampleStore
  /\ wtx = NoTx
  /\ tg = [stopped |-> FALSE, count |-> 0, closed |-> FALSE]
  /\ mu = 0
  /\ pc = [p \in Procs |-> "idle"]
  /\ txns = [p \in Procs |-> << >>]
  /\ loc = [p \in Procs |-> NewLocals]
  /\ ret = [p \in Procs |-> NoReturn]
  /\ snap = [p \in Procs |-> db]
  /\ hist = [p \in Procs |-> << >>]
  /\ probe = NoProbe
  /\ file \in [main : InitMainFiles, bck : InitBckFiles]
  /\ opn = Closed

NextOpen ==
  \/ OpenDBCall
  \/ \E io \in BOOLEAN : OpenDBFirst(io)
  \/ \E io \in BOOLEAN : OpenDBConvert(io)
  \/ \E ok \in BOOLEAN : ReplaceDatabaseRename(ok)
  \/ \E io \in BOOLEAN : ReplaceDatabaseOpen(io)
  \/ InitBegin
  \/ \E ok \in BOOLEAN : InitDBCreateConsensusDB(ok)
  \/ \E ok \in BOOLEAN : InitDBCreateChangeLog(ok)
  \/ \E ok \in BOOLEAN : InitDBPutFlag(ok)
  \/ InitEnd
  \/ Crash

SpecOpen == InitOpen /\ [][NextOpen]_vars

(***************************************************************************)
(* Properties                                                              *)
(***************************************************************************)
TryDone(p) == pc[p] = "done" /\ ret[p].op = "try"
ApplyDone(p) == pc[p] = "done" /\ ret[p].op = "apply"

\* the call passed cs.tg.Add()
Admitted(p) == ret[p].phase # "add"

\* the number of transactions of the call that passed validation and all
\* plugin apply hooks
Processed(p) == IF ret[p].at = 0 THEN 0 ELSE ret[p].at - 1

NotBlockCreating(b) == [i \in 1 .. Len(b) |-> FALSE]

TipReadable(st) == blockTimeStamp(st, blockHeight(st)).err = Nil

DiffsOf(dh) ==
  [CoinOutputDiffs |-> dh.CoinOutputDiffs, BlockStakeOutputDiffs |-> dh.BlockStakeOutputDiffs]

SeqToSet(q) == {q[i] : i \in 1 .. Len(q)}

SharesInput(t, u) ==
  \/ SeqToSet(t.CoinInputs) \cap SeqToSet(u.CoinInputs) # {}
  \/ SeqToSet(t.BlockStakeInputs) \cap SeqToSet(u.BlockStakeInputs) # {}

\* C1: whenever TryTransactionSet has returned, with a Consensus Change or
\* with an error, the durable store (outputs, block records, plugin buckets,
\* Consistency Flag) is what it was when the call started.
C1_TryLeavesStoreUntouched ==
  \A p \in Procs : TryDone(p) => db = snap[p]

\* a try that accepted a batch and returned diffs for it
C1_Witness ==
  \E p \in Procs :
    /\ TryDone(p)
    /\ ret[p].err = Nil
    /\ ret[p].cc.CoinOutputDiffs # << >>
    /\ db = snap[p]

\* C2: a batch rejected at its second or a later transaction, by a validator
\* or by a plugin apply hook, leaves the durable store as it was before the
\* call, for the try and for the apply operation alike.
C2_RejectedPartwayLeavesStore ==
  \A p \in Procs :
    (pc[p] = "done" /\ ret[p].op \in {"try", "apply"} /\ ret[p].err # Nil /\ ret[p].at >= 2)
      => db = snap[p]

\* a try whose first transaction was applied and whose second one made a
\* plugin apply hook fail
C2_Witness ==
  \E p \in Procs :
    /\ TryDone(p)
    /\ ret[p].at = 2
    /\ ret[p].phase = "plugin"
    /\ ret[p].err = ErrPluginApply
    /\ loc[p].diffHolder.CoinOutputDiffs # << >>

C4_SpentInBatchIsNotFound ==
  \A p \in Procs :
    (TryDone(p) /\ ret[p].at >= 1) =>
      \A j \in 2 .. Len(txns[p]) :
        (\E i \in 1 .. (j - 1) : SharesInput(Tx(txns[p][i]), Tx(txns[p][j])))
          => /\ ret[p].err # Nil
             /\ ret[p].at <= j
             /\ (ret[p].at = j => (ret[p].phase = "validate" /\ ret[p].err = errNilItem))

\* T2 spent O, and T1, the second transaction, references O as well
C4_Witness ==
  \E p \in Procs :
    /\ TryDone(p)
    /\ txns[p] = <<"T2", "T1">>
    /\ ret[p].at = 2
    /\ ret[p].err = errNilItem

\* C5: a try on a store whose Consistency Flag is true never returns a
\* successful result.
C5_FlaggedStoreRefusesTry ==
  \A p \in Procs :
    (TryDone(p) /\ inconsistencyDetected(snap[p])) => ret[p].err # Nil

\* C6: once all concurrent tries have returned, the durable store and its
\* Consistency Flag are what they were when each of them started.
C6_ConcurrentTriesLeaveStore ==
  (\A p \in Procs : pc[p] = "done")
    => \A p \in Procs : db = snap[p] /\ db.Consistency = snap[p].Consistency

\* two tries on batches that share no output, both accepted, one of them
\* returning while the other was in flight
C6_Witness ==
  /\ \A p \in Procs : TryDone(p) /\ ret[p].err = Nil
  /\ \E p, q \in Procs :
       /\ txns[p] = <<"T2">>
       /\ txns[q] = <<"T4">>
       /\ ret[p].concurrent
       /\ db = snap[p]

\* C7: a try of a batch that holds a block-creating transaction returns an
\* error.
C7_BlockCreatingRejectedByTry ==
  \A p \in Procs :
    (TryDone(p) /\ \E i \in 1 .. Len(txns[p]) : Tx(txns[p][i]).isBlockCreating)
      => ret[p].err # Nil

\* the block-creating transaction reached validation and was rejected there
C7_Witness ==
  \E p \in Procs :
    /\ TryDone(p)
    /\ txns[p] = <<"T5">>
    /\ ret[p].phase = "validate"
    /\ ret[p].err = ErrBlockCreatingTx

C10_FeeExample ==
  \A p \in Procs :
    ( /\ TryDone(p)
      /\ Admitted(p)
      /\ TipReadable(snap[p])
      /\ snap[p].CoinOutputs = ("O" :> 100)
      /\ chainCts.MinimumTransactionFee = 1 ) =>
        /\ txns[p] = <<"T1">> =>
             /\ ret[p].err = ErrTooSmallMinerFee
             /\ "O" \in DOMAIN db.CoinOutputs
             /\ "P" \notin DOMAIN db.CoinOutputs
        /\ txns[p] = <<"T2">> =>
             /\ ret[p].err = Nil
             /\ Len(ret[p].cc.CoinOutputDiffs) = 2
             /\ SeqToSet(ret[p].cc.CoinOutputDiffs)
                  = {Diff("revert", "O", 100), Diff("apply", "P", 99)}
             /\ ret[p].cc.BlockStakeOutputDiffs = << >>

\* the try of [O -> P(99), fee 1] on that store, accepted
C10_Witness ==
  \E p \in Procs :
    /\ TryDone(p)
    /\ snap[p].CoinOutputs = ("O" :> 100)
    /\ txns[p] = <<"T2">>
    /\ ret[p].err = Nil
    /\ Len(ret[p].cc.CoinOutputDiffs) = 2

(***************************************************************************)
(* The record of a call                                                    *)
(***************************************************************************)
OutputIDs(outs) == {outs[k].id : k \in 1 .. Len(outs)}

\* the transactions of batch b a diff can come from: the one that spends the
\* output for a diff that removes it, the one that creates it otherwise
CoinDiffOwners(b, d) ==
  {i \in 1 .. Len(b) :
     IF d.Direction = "revert" THEN d.ID \in SeqToSet(Tx(b[i]).CoinInputs)
     ELSE d.ID \in OutputIDs(Tx(b[i]).CoinOutputs)}

StakeDiffOwners(b, d) ==
  {i \in 1 .. Len(b) :
     IF d.Direction = "revert" THEN d.ID \in SeqToSet(Tx(b[i]).BlockStakeInputs)
     ELSE d.ID \in OutputIDs(Tx(b[i]).BlockStakeOutputs)}

\* C11: in a try the transactions are validated and applied in the order
\* the caller supplied: the n-th validation is that of the n-th transaction,
\* it comes after the application of the one before it, an application
\* follows the validation of the same transaction; and in the Consensus
\* Change returned every diff belongs to one transaction of the batch and
\* the diffs of an earlier transaction all precede those of a later one.
C11_BatchOrderKept ==
  \A p \in Procs :
    /\ \A k \in StepsOf(p, "validate") :
         LET e == hist[p][k]
         IN  /\ e.i = 1 + Cardinality({a \in StepsOf(p, "validate") : a < k})
             /\ e.name = txns[p][e.i]
             /\ e.i > 1 => \E a \in StepsOf(p, "apply") : a < k /\ hist[p][a].i = e.i - 1
    /\ \A k \in StepsOf(p, "apply") :
         LET e == hist[p][k]
         IN  /\ e.name = txns[p][e.i]
             /\ hist[p][k - 1].ev = "validate"
             /\ hist[p][k - 1].i = e.i
    /\ (TryDone(p) /\ ret[p].err = Nil) =>
         LET coins == ret[p].cc.CoinOutputDiffs
             stakes == ret[p].cc.BlockStakeOutputDiffs
         IN  /\ \A k \in 1 .. Len(coins) : Cardinality(CoinDiffOwners(txns[p], coins[k])) = 1
             /\ \A k \in 1 .. Len(stakes) : Cardinality(StakeDiffOwners(txns[p], stakes[k])) = 1
             /\ \A k, l \in 1 .. Len(coins) :
                  k < l => \A i \in CoinDiffOwners(txns[p], coins[k]) :
                             \A j \in CoinDiffOwners(txns[p], coins[l]) : i <= j
             /\ \A k, l \in 1 .. Len(stakes) :
                  k < l => \A i \in StakeDiffOwners(txns[p], stakes[k]) :
                             \A j \in StakeDiffOwners(txns[p], stakes[l]) : i <= j

\* a batch of two transactions accepted: the two diffs of the first, then
\* the two diffs of the second
C11_Witness ==
  \E p \in Procs :
    /\ TryDone(p)
    /\ ret[p].err = Nil
    /\ Len(txns[p]) = 2
    /\ Len(ret[p].cc.CoinOutputDiffs) = 4
    /\ CoinDiffOwners(txns[p], ret[p].cc.CoinOutputDiffs[2]) = {1}
    /\ CoinDiffOwners(txns[p], ret[p].cc.CoinOutputDiffs[3]) = {2}

\* the validators validTransaction has to run for t, in its order
ValidatorOrder(t) == versionValidators(t) \o txValidators \o pluginValidators

\* C12: every run of validTransaction invokes the validators of the
\* transaction's version (none when the version has none), then the global
\* ones, then those of the plugins, in that order and without gaps; it stops
\* at the first that fails and returns its error; it returns ok exactly
\* when it invoked every validator of the three groups and each returned ok.
C12_ValidatorsInOrderFirstErrorWins ==
  \A p \in Procs : \A k \in StepsOf(p, "validate") :
    LET e == hist[p][k]
        order == ValidatorOrder(Tx(e.name))
        n == Len(e.calls)
    IN  /\ n >= 1
        /\ n <= Len(order)
        /\ \A c \in 1 .. n : e.calls[c].validator = order[c]
        /\ \A c \in 1 .. (n - 1) : e.calls[c].err = Nil
        /\ e.err = e.calls[n].err
        /\ (e.err = Nil) <=> (n = Len(order) /\ \A c \in 1 .. n : e.calls[c].err = Nil)

\* a batch whose first transaction went through the validators of its
\* version, the global ones and the plugins', and whose second one, of a
\* version without validators of its own, was vetoed by the first plugin
\* validator after the global ones passed it
C12_Witness ==
  \E p \in Procs : \E k, l \in StepsOf(p, "validate") :
    /\ TryDone(p)
    /\ hist[p][k].i = 1
    /\ hist[p][k].err = Nil
    /\ Len(hist[p][k].calls) = Len(txVersionMappedValidators[1]) + Len(txValidators) + Len(pluginValidators)
    /\ hist[p][l].i = 2
    /\ Tx(hist[p][l].name).Version \notin DOMAIN txVersionMappedValidators
    /\ Len(hist[p][l].calls) = Len(txValidators) + 1
    /\ hist[p][l].err = ErrPluginVeto
    /\ ret[p].err = ErrPluginVeto

\* the hook invocations of plugin name for the i-th transaction of p's call
HookCalls(p, i, name) ==
  {k \in StepsOf(p, "plugin") : hist[p][k].i = i /\ hist[p][k].name = name}

\* C13: a plugin's apply hook runs for a transaction only after the
\* transaction passed validation and its core diffs were recorded, with the
\* bucket resolved from the plugin's own name, and at most once; when a hook
\* fails nothing else is validated, applied or hooked, the transaction is
\* rolled back and the hook's error is what the caller gets, with an empty
\* Consensus Change; for every transaction the call went through, each
\* registered plugin's hook ran exactly once and succeeded.
C13_PluginHooksOncePerTransaction ==
  \A p \in Procs :
    /\ \A k \in StepsOf(p, "plugin") :
         LET e == hist[p][k]
         IN  /\ e.name \in Plugins
             /\ e.bucket = e.name
             /\ Cardinality(HookCalls(p, e.i, e.name)) = 1
             /\ \E v \in StepsOf(p, "validate") : \E a \in StepsOf(p, "apply") :
                  /\ v < a
                  /\ a < k
                  /\ hist[p][v].i = e.i
                  /\ hist[p][v].err = Nil
                  /\ hist[p][a].i = e.i
             /\ e.err # Nil =>
                  /\ \A l \in (k + 1) .. Len(hist[p]) :
                       hist[p][l].ev \notin {"validate", "apply", "plugin", "commit"}
                  /\ k < Len(hist[p]) =>
                       (hist[p][k + 1].ev = "rollback" /\ hist[p][k + 1].err = e.err)
                  /\ TryDone(p) => (ret[p].err = e.err /\ ret[p].cc = EmptyCC)
    /\ TryDone(p) =>
         \A i \in 1 .. Processed(p) : \A name \in Plugins :
           /\ Cardinality(HookCalls(p, i, name)) = 1
           /\ \A k \in HookCalls(p, i, name) : hist[p][k].err = Nil

\* the first transaction went through both hooks; for the second one a
\* hook ran before the failing one, and the failing one ended the batch
C13_Witness ==
  \E p \in Procs : \E k \in StepsOf(p, "plugin") :
    /\ TryDone(p)
    /\ Processed(p) = 1
    /\ hist[p][k].i = 2
    /\ hist[p][k].err = ErrPluginApply
    /\ hist[p][k - 1].ev = "plugin"
    /\ hist[p][k - 1].i = 2
    /\ hist[p][k + 1].ev = "rollback"
    /\ ret[p].err = ErrPluginApply

\* C14: a store created by this run holds, on disk, either no bucket and no
\* flag or all the required buckets and the flag false, wherever the
\* initialization stands and wherever the process dies; when initDB returned
\* an error the store on disk is what it was before the initialization; when
\* it returned nil the store holds all the required buckets and the flag
\* false.
C14_InitWritesFalseWithBuckets ==
  /\ (file.main.exists /\ file.main.origin = "new") =>
       \/ file.main.buckets = {} /\ file.main.flag = "none"
       \/ file.main.buckets = RequiredBuckets /\ file.main.flag = "false"
  /\ opn.pc = "initfailed" => (opn.initErr # Nil /\ file.main = opn.base)
  /\ (opn.pc = "serving" /\ ~dbInitialized(opn.base)) =>
       /\ opn.initErr = Nil
       /\ file.main.buckets = RequiredBuckets
       /\ file.main.flag = "false"

\* a store the first open created, initialized and committed
C14_Witness ==
  /\ opn.pc = "serving"
  /\ ~opn.pre.main.exists
  /\ file.main.origin = "new"
  /\ opn.base.buckets = {}
  /\ file.main.buckets = RequiredBuckets
  /\ file.main.flag = "false"

\* the store found at <filename> was moved aside or a fresh one stands in
\* its place
Replaced ==
  /\ opn.pre.main.exists
  /\ ~file.main.exists \/ (file.main.origin = "new" /\ file.main # opn.pre.main)

\* C15: while openDB runs and after it returned, the file found at
\* <filename> is moved or replaced only when the first open and the legacy
\* conversion both reported a bad version, and then it lies unchanged at
\* <filename>.bck; a failed rename returns an error and leaves both files as
\* they were; a first open or a conversion that succeeds returns nil, leaves
\* the backup alone and the store in place (converted by the conversion);
\* any other error of the open or of the conversion is returned as an error.
C15_ReplacedOnlyWhenUnconvertible ==
  opn.pc \in {"convert", "rename", "reopen", "returned"} =>
    /\ (Replaced \/ file.bck # opn.pre.bck) =>
         /\ opn.first = ErrBadVersion
         /\ opn.conv = ErrBadVersion
         /\ opn.rename = "ok"
         /\ file.bck = opn.pre.main
    /\ (opn.pc = "returned" /\ opn.rename = "ok" /\ opn.err = Nil) =>
         file.main = File(dbVersion, {}, "none", "new")
    /\ opn.rename = "failed" =>
         (opn.pc = "returned" /\ opn.err # Nil /\ file = opn.pre)
    /\ (opn.pc = "returned" /\ opn.first = Nil) =>
         /\ opn.err = Nil
         /\ file.bck = opn.pre.bck
         /\ opn.pre.main.exists => file.main = opn.pre.main
    /\ (opn.pc = "returned" /\ opn.conv = Nil) =>
         /\ opn.err = Nil
         /\ file.bck = opn.pre.bck
         /\ file.main = [opn.pre.main EXCEPT !.version = dbVersion]
    /\ (opn.pc = "returned" /\ (opn.first = ErrIO \/ opn.conv = ErrIO)) =>
         (opn.err # Nil /\ file = opn.pre)

\* a store of an unknown version backed up over an older backup, and a
\* fresh store created in its place
C15_Witness ==
  /\ opn.pc = "returned"
  /\ opn.err = Nil
  /\ opn.first = ErrBadVersion
  /\ opn.conv = ErrBadVersion
  /\ opn.pre.bck.exists
  /\ file.bck = opn.pre.main
  /\ file.main = File(dbVersion, {}, "none", "new")

\* C16: when markInconsistency was executed during a try and its Put
\* succeeded, the Consistency Flag reads true in the durable store once the
\* try has returned.
C16_MarkedFlagIsDurable ==
  \A p \in Procs :
    (TryDone(p) /\ \E k \in StepsOf(p, "mark") : hist[p][k].err = Nil)
      => inconsistencyDetected(db)

\* the call is between cs.tg.Add() and the deferred cs.tg.Done()
InFlight(p) == pc[p] \in {"rlock", "update", "validate", "apply", "plugins", "cbret", "ret"}

\* C17: the first thing a try does is to register with the shutdown
\* coordinator, and the coordinator counts exactly the tries in flight: the
\* shutdown never completes while one of them is in flight; a try in flight
\* was admitted before anything else it did; a try made once the shutdown
\* was requested has done nothing but ask the coordinator, and returns the
\* coordinator's error with an empty Consensus Change; a try that was
\* admitted ends by deregistering.
C17_RegisteredWhileInFlight ==
  /\ tg.closed => \A p \in Procs : ~InFlight(p)
  /\ tg.count = Cardinality({p \in Procs : InFlight(p)})
  /\ \A p \in Procs :
       /\ InFlight(p) => (hist[p][1].ev = "add" /\ hist[p][1].err = Nil)
       /\ \A k \in 2 .. Len(hist[p]) : hist[p][k].ev # "add"
       /\ TryDone(p) =>
            IF hist[p][1].err # Nil
            THEN /\ ret[p].err = errStopped
                 /\ ret[p].cc = EmptyCC
                 /\ Len(hist[p]) = 1
            ELSE /\ hist[p][2].ev = "rlock"
                 /\ hist[p][Len(hist[p])].ev = "done"
                 /\ StepsOf(p, "done") = {Len(hist[p])}

\* the shutdown is requested and waits for a try that holds the database
\* transaction, while a try made after the request has been refused
C17_Witness ==
  /\ tg.stopped
  /\ ~tg.closed
  /\ \E p, q \in Procs :
       /\ InFlight(p)
       /\ wtx.owner = p
       /\ TryDone(q)
       /\ ret[q].err = errStopped
       /\ Len(hist[q]) = 1
       /\ txns[q] # << >>

\* the two results are the same error, or the same value found
SameResult(r, q) == r.err = q.err /\ (r.err = Nil => r.val = q.val)

\* what a bucket answers for a key: its value, or the not-found error
BucketGet(bucket, key) ==
  IF key \in DOMAIN bucket THEN Found(bucket[key]) ELSE Failed(errNilItem)

\* C18: every lookup made through the state reader leaves the transaction
\* it is bound to as it was; a lookup by identifier returns what the bucket
\* holds under the key and fails with the not-found error when the key is
\* absent, for an output already spent in the transaction as for one that
\* never existed; BlockAtHeight fails with the not-found error when the path
\* has no entry for the height, and otherwise returns exactly what BlockAtID
\* returns for the identifier the path holds, the failure for a missing
\* block record included.
C18_ReaderLooksUpAndWritesNothing ==
  [][ (probe' # probe /\ probe'.kind # "none") =>
        LET st == wtx.st
            q == probe'
        IN  /\ wtx' = wtx
            /\ db' = db
            /\ q.kind = "BlockAtID" => SameResult(q.res, BucketGet(st.BlockMap, q.id))
            /\ q.kind = "UnspentCoinOutputGet" =>
                 SameResult(q.res, BucketGet(st.CoinOutputs, q.id))
            /\ q.kind = "UnspentBlockStakeOutputGet" =>
                 SameResult(q.res, BucketGet(st.BlockStakeOutputs, q.id))
            /\ q.kind = "BlockAtHeight" =>
                 IF q.height \notin DOMAIN st.BlockPath
                 THEN q.res.err = errNilItem
                 ELSE SameResult(q.res, BlockAtID(st, st.BlockPath[q.height]))
            /\ q.res.err \in {Nil, errNilItem} ]_vars

\* the output O, spent earlier in the transaction, looked up and not found
\* while the durable store still holds it
C18_Witness ==
  /\ probe.kind = "UnspentCoinOutputGet"
  /\ probe.id = "O"
  /\ probe.res.err = errNilItem
  /\ wtx.owner = 1
  /\ "O" \in DOMAIN db.CoinOutputs
  /\ "O" \notin DOMAIN wtx.st.CoinOutputs

\* C19: in a try every validation of the batch gets the same Validation
\* Context: the height of the tip of the store the try's transaction reads,
\* the timestamp of the block at that height, Confirmed true,
\* IsBlockCreatingTx false and the three limits of the chain constants,
\* whatever the batch is; and when the tip's timestamp cannot be read the
\* try returns that error without having validated anything.
C19_OneContextFromTheTip ==
  \A p \in Procs :
    /\ \A k \in StepsOf(p, "validate") :
         LET tip == blockHeight(snap[p])
         IN  /\ hist[p][k].ctx =
                  [ Confirmed |-> TRUE,
                    BlockHeight |-> tip,
                    BlockTime |-> blockTimeStamp(snap[p], tip).val,
                    IsBlockCreatingTx |-> FALSE,
                    BlockSizeLimit |-> chainCts.BlockSizeLimit,
                    ArbitraryDataSizeLimit |-> chainCts.ArbitraryDataSizeLimit,
                    MinimumMinerFee |-> chainCts.MinimumTransactionFee ]
             /\ blockTimeStamp(snap[p], tip).err = Nil
             /\ \A l \in StepsOf(p, "validate") : hist[p][l].ctx = hist[p][k].ctx
    /\ \A k \in StepsOf(p, "tip") :
         hist[p][k].err # Nil =>
           /\ hist[p][k].err = blockTimeStamp(snap[p], blockHeight(snap[p])).err
           /\ StepsOf(p, "validate") = {}
           /\ StepsOf(p, "apply") = {}
           /\ StepsOf(p, "plugin") = {}
           /\ TryDone(p) => (ret[p].err = hist[p][k].err /\ ret[p].cc = EmptyCC)

\* two transactions of one batch validated, both at the height and the
\* timestamp of the tip
C19_Witness ==
  \E p \in Procs : \E k, l \in StepsOf(p, "validate") :
    /\ TryDone(p)
    /\ hist[p][k].i = 1
    /\ hist[p][l].i = 2
    /\ hist[p][l].ctx.BlockHeight = TipRecord.Height
    /\ hist[p][l].ctx.BlockTime = TipRecord.Timestamp
    /\ hist[p][l].ctx = hist[p][k].ctx

\* C20: while a try's transaction is open, a step that runs validTransaction
\* leaves the buckets and the Diff Accumulator as they are, and a step
\* changes a bucket or records a diff only for a transaction whose
\* validation, the last one made, returned ok; once validTransaction has
\* returned an error nothing is changed or recorded any more.
C20_ValidationGatesApplication ==
  [][ \A p \in Procs :
        (wtx.owner = p /\ wtx'.owner = p) =>
          /\ pc[p] = "validate" => (wtx' = wtx /\ loc'[p].diffHolder = loc[p].diffHolder)
          /\ (wtx'.st # wtx.st \/ DiffsOf(loc'[p].diffHolder) # DiffsOf(loc[p].diffHolder)) =>
               /\ StepsOf(p, "validate") # {}
               /\ LET v == hist[p][CHOOSE k \in StepsOf(p, "validate") :
                                    \A l \in StepsOf(p, "validate") : l <= k]
                  IN  /\ v.err = Nil
                      /\ v.i = loc[p].i
                      /\ v.name = txns[p][loc[p].i]
          /\ (\E k \in StepsOf(p, "validate") : hist[p][k].err # Nil) =>
               (wtx'.st = wtx.st /\ loc'[p].diffHolder = loc[p].diffHolder) ]_vars

\* the second transaction of a batch failed validation: inside the open
\* transaction the store and the accumulator hold the diffs of the first
\* transaction and nothing of the second
C20_Witness ==
  \E p \in Procs : \E k \in StepsOf(p, "validate") :
    /\ pc[p] = "cbret"
    /\ wtx.owner = p
    /\ hist[p][k].i = 2
    /\ hist[p][k].err # Nil
    /\ Len(loc[p].diffHolder.CoinOutputDiffs) = 2
    /\ LET first == applyTransaction(snap[p], NewDiffHolder, Tx(txns[p][1]))
       IN  /\ wtx.st.CoinOutputs = first.st.CoinOutputs
           /\ wtx.st.BlockStakeOutputs = first.st.BlockStakeOutputs
           /\ DiffsOf(loc[p].diffHolder) = DiffsOf(first.dh)

\* the number of diffs applying the batch b records: one for each input
\* spent and one for each output created
RECURSIVE CoinDiffCount(_)
CoinDiffCount(b) ==
  IF b = << >> THEN 0
  ELSE Len(Tx(Head(b)).CoinInputs) + Len(Tx(Head(b)).CoinOutputs) + CoinDiffCount(Tail(b))

RECURSIVE StakeDiffCount(_)
StakeDiffCount(b) ==
  IF b = << >> THEN 0
  ELSE Len(Tx(Head(b)).BlockStakeInputs) + Len(Tx(Head(b)).BlockStakeOutputs)
       + StakeDiffCount(Tail(b))

\* C21: a try that returns an error (the coordinator's refusal, the tip
\* timestamp not found, a validator's or a plugin hook's error) returns the
\* empty Consensus Change, whatever the diff holder has accumulated for the
\* transactions before the failing one; nothing is handed over before the
\* call returns; a try that returns nil returns the coin output diffs and
\* the block stake output diffs of the whole batch run on the store the call
\* started on, one diff for each input and each output of the batch.
C21_FailedTryReturnsEmptyChange ==
  \A p \in Procs :
    /\ pc[p] \notin {"idle", "done"} => ret[p].cc = EmptyCC
    /\ TryDone(p) =>
         LET outcome == BatchOutcome(snap[p], txns[p], NotBlockCreating(txns[p]))
         IN  IF ret[p].err # Nil
             THEN ret[p].cc = EmptyCC
             ELSE /\ ret[p].cc = DiffsOf(outcome.dh)
                  /\ ret[p].cc = DiffsOf(loc[p].diffHolder)
                  /\ Len(ret[p].cc.CoinOutputDiffs) = CoinDiffCount(txns[p])
                  /\ Len(ret[p].cc.BlockStakeOutputDiffs) = StakeDiffCount(txns[p])

\* the block stake was moved by the first transaction, the second one was
\* vetoed: the diff holder holds the diffs of the first, the caller got none
C21_Witness ==
  \E p \in Procs :
    /\ TryDone(p)
    /\ txns[p] = <<"T8", "T6">>
    /\ ret[p].at = 2
    /\ ret[p].err = ErrPluginVeto
    /\ loc[p].diffHolder.BlockStakeOutputDiffs # << >>
    /\ ret[p].cc = EmptyCC

\* the call is inside cs.db.Update: its callback runs or has just returned
HoldsTx(p) == pc[p] \in {"validate", "apply", "plugins", "cbret"}

\* the call is between cs.mu.RLock() and the deferred cs.mu.RUnlock()
HoldsRLock(p) == pc[p] \in {"update", "validate", "apply", "plugins", "cbret", "ret"}

\* a bucket of outputs after the diffs were applied to it, in order
RECURSIVE ApplyDiffs(_, _)
ApplyDiffs(m, diffs) ==
  IF diffs = << >> THEN m
  ELSE ApplyDiffs(IF Head(diffs).Direction = "apply"
                  THEN Put(m, Head(diffs).ID, Head(diffs).Value)
                  ELSE Delete(m, Head(diffs).ID),
                  Tail(diffs))

\* C22: concurrent tries hold the read lock together, and their batches run
\* one after the other: at most one of them is inside cs.db.Update, and it
\* is the owner of the store's write transaction; the outputs that
\* transaction shows are those of the committed store changed by the diffs
\* of its owner and by nothing else; every try the coordinator admitted
\* returns what its batch gives when run alone on the committed store.
C22_TriesAreSerializedAndIsolated ==
  /\ mu = Cardinality({p \in Procs : HoldsRLock(p)})
  /\ Cardinality({p \in Procs : HoldsTx(p)}) <= 1
  /\ \A p \in Procs :
       /\ HoldsTx(p) <=> wtx.owner = p
       /\ HoldsTx(p) =>
            /\ wtx.st.CoinOutputs =
                 ApplyDiffs(db.CoinOutputs, loc[p].diffHolder.CoinOutputDiffs)
            /\ wtx.st.BlockStakeOutputs =
                 ApplyDiffs(db.BlockStakeOutputs, loc[p].diffHolder.BlockStakeOutputDiffs)
       /\ (TryDone(p) /\ Admitted(p)) =>
            LET alone == BatchOutcome(db, txns[p], NotBlockCreating(txns[p]))
            IN  /\ ret[p].err = alone.err
                /\ ret[p].cc = IF alone.err = Nil THEN DiffsOf(alone.dh) ELSE EmptyCC

\* two tries hold the read lock; one failed in a plugin hook after it had
\* spent O in its transaction and is about to return, the other, whose
\* batch spends O too, has the transaction now and has spent O in it
C22_Witness ==
  \E p, q \in Procs :
    /\ p # q
    /\ mu >= 2
    /\ pc[p] = "ret"
    /\ txns[p] = <<"T2", "T7">>
    /\ loc[p].err = ErrPluginApply
    /\ wtx.owner = q
    /\ txns[q] = <<"T2">>
    /\ pc[q] = "cbret"
    /\ loc[q].err = errSuccess
    /\ "O" \notin DOMAIN wtx.st.CoinOutputs
    /\ "O" \in DOMAIN db.CoinOutputs

\* C23: the coordinator counts exactly the calls between cs.tg.Add() and
\* their return and the read lock has exactly the holders between
\* cs.mu.RLock() and their return, so a call that has returned, on whatever
\* path, holds neither; no call the coordinator admitted stays in flight
\* for ever; no requested shutdown stays pending for ever; when from some
\* moment on no call is admitted any more, the read lock and the store's
\* transaction end up free for good, so that a writer waiting for the lock
\* gets it.
C23_AdmittedTryReturnsAndReleases ==
  /\ [](/\ tg.count = Cardinality({p \in Procs : InFlight(p)})
        /\ mu = Cardinality({p \in Procs : HoldsRLock(p)}))
  /\ \A p \in Procs : []<>(~InFlight(p))
  /\ []<>(~(tg.stopped /\ ~tg.closed))
  /\ (<>[](\A p \in Procs : pc[p] # "rlock")) => <>[](mu = 0 /\ wtx.owner = 0)

\* the shutdown is requested while two calls are in flight: one has failed
\* in a plugin hook and its transaction is not yet rolled back, the other
\* holds the read lock and waits for the store
C23_Witness ==
  /\ tg.stopped
  /\ ~tg.closed
  /\ tg.count = 2
  /\ mu = 2
  /\ \E p, q \in Procs :
       /\ pc[p] = "cbret"
       /\ wtx.owner = p
       /\ txns[p] = <<"T9">>
       /\ loc[p].err = ErrPluginApply
       /\ pc[q] = "update"

====
